---- MODULE Spec2Model ----
(***************************************************************************)
(* Exact-enumeration Baccarat odds calculator (baccarat.py) and its        *)
(* six-deck predecessor (baccarat_six_decks.py).                           *)
(*                                                                         *)
(* Python integers are unbounded.  A non-negative Python integer v is      *)
(* represented exactly by the pair <<v \div Base, v % Base>>, so that no   *)
(* product or tally leaves the range of the model checker's integers.      *)
(* Card values, shoe frequencies and hand frequencies are small and stay   *)
(* plain integers.                                                         *)
(***************************************************************************)
EXTENDS Integers, Sequences, FiniteSets, TLC

\* ------------------------------------------------------------------ bounds
\* Deck counts the Shoe is constructed with: MinDecks..MaxDecks, where
\* MinDecks is -1 (a negative count), 0 and the positive counts follow.
MaxDecks == 2
\* Invocations of run_calculations on one calculator.
MaxRuns == 2
\* Value classes the calculator of Spec enumerates over (self.deck is
\* range(NumValues) there; the program's own range(10) is FullDeckSize).
NumValues == 3
\* Largest per-value supply of the arbitrary frequency vectors of SpecHand,
\* and the value classes its hands and vectors range over.
MaxFreq == 6
WeightValues == 2

\* ------------------------------------------------------- program constants
\* len(range(10)): the ten Baccarat point values.
FullDeckSize == 10
\* repeat=6: a hand pattern is six card values.
HandLen == 6
\* deckFrequency of baccarat_six_decks.py is the shoe of six decks.
SixDecks == 6

MinDecks == 0 - 1
Values == 0..(FullDeckSize - 1)

\* ------------------------------------------------- exact (unbounded) integers
Base == 1000 * 1000
Zero == <<0, 0>>
One == <<0, 1>>
\* a + b
BigAdd(a, b) == LET lo == a[2] + b[2] IN <<a[1] + b[1] + (lo \div Base), lo % Base>>
\* a * n for a small integer n (a shoe frequency), where n >= 0 or a = 0:
\* baccarat.py multiplies only after the supply check, and repCount reaches a
\* negative supply only after it has multiplied by the supply 0
BigMul(a, n) == LET lo == a[2] * n IN <<a[1] * n + (lo \div Base), lo % Base>>
\* a < b
BigLess(a, b) == a[1] < b[1] \/ (a[1] = b[1] /\ a[2] < b[2])
BigLeq(a, b) == a = b \/ BigLess(a, b)
\* the exact integer n (0 <= n) as a pair
Big(n) == <<n \div Base, n % Base>>

\* ------------------------------------------------------------- baccarat.py
\* BANKER_DRAW_MAP[banker_sum]: the player third-card values on which the
\* banker draws.
BANKER_DRAW_MAP_3takes8(banker_sum) ==
  CASE banker_sum \in {0, 1, 2} -> Values
    [] banker_sum = 3 -> Values
    [] banker_sum = 4 -> {2, 3, 4, 5, 6, 7}
    [] banker_sum = 5 -> {4, 5, 6, 7}
    [] banker_sum = 6 -> {6, 7}
    [] OTHER -> {}
BANKER_DRAW_MAP(banker_sum) ==
  CASE banker_sum \in {0, 1, 2} -> Values
    [] banker_sum = 3 -> {0, 1, 2, 3, 4, 5, 6, 7, 9}
    [] banker_sum = 4 -> {2, 3, 4, 5, 6, 7}
    [] banker_sum = 5 -> {4, 5, 6, 7}
    [] banker_sum = 6 -> {6, 7}
    [] banker_sum \in {7, 8, 9} -> {}

\* Shoe.frequencies: (zeroes,) + (others,) * 9, indexed by card value.
Frequencies(n) ==
  LET zeroes == n * 4 * 4
      others == n * 4
  IN [i \in Values |-> IF i = 0 THEN zeroes ELSE others]

\* hand_freq = [0] * 10; for c in hand: hand_freq[c] += 1
RECURSIVE CountHand(_, _, _)
CountHand(hand, j, hand_freq) ==
  IF j > Len(hand) THEN hand_freq
  ELSE CountHand(hand, j + 1, [hand_freq EXCEPT ![hand[j]] = @ + 1])
HandFreq(hand) == CountHand(hand, 1, [i \in Values |-> 0])

\* ways * math.perm(n, k) for 0 <= k <= n: perm(n, k) = n (n-1) ... (n-k+1),
\* and 1 when k = 0.
RECURSIVE TimesPerm(_, _, _)
TimesPerm(ways, n, k) ==
  IF k = 0 THEN ways ELSE TimesPerm(BigMul(ways, n), n - 1, k - 1)

\* for i in range(10): if hand_freq[i] > deck_frequency[i]: return 0
\*                     ways *= perm(deck_frequency[i], hand_freq[i])
RECURSIVE PermLoop_ge(_, _, _, _)
PermLoop_ge(deck_frequency, hand_freq, i, ways) ==
  IF i = FullDeckSize THEN ways
  ELSE IF hand_freq[i] >= deck_frequency[i] THEN Zero
  ELSE PermLoop_ge(deck_frequency, hand_freq, i + 1,
                   TimesPerm(ways, deck_frequency[i], hand_freq[i]))
RECURSIVE PermLoop(_, _, _, _)
PermLoop(deck_frequency, hand_freq, i, ways) ==
  IF i = FullDeckSize THEN ways
  ELSE IF hand_freq[i] > deck_frequency[i] THEN Zero
  ELSE PermLoop(deck_frequency, hand_freq, i + 1,
                TimesPerm(ways, deck_frequency[i], hand_freq[i]))

\* BaccaratCalculator._count_permutations_of_hand (the lru_cache returns the
\* value the body computes: the body reads only the hand and the immutable
\* deck_frequency).
CountPermutationsOfHand(deck_frequency, hand) ==
  PermLoop(deck_frequency, HandFreq(hand), 0, One)

\* run_calculations, the drawing rules of one hand: <<player_sum, banker_sum>>
\* after the draws.
DrawingRules_noNatural(hand) ==
  LET player_sum == (hand[1] + hand[2]) % 10
      banker_sum == (hand[4] + hand[5]) % 10
  IN IF player_sum \in {6, 7}
       THEN <<player_sum,
              IF banker_sum <= 5 THEN (banker_sum + hand[6]) % 10 ELSE banker_sum>>
     ELSE IF player_sum <= 5
       THEN <<(player_sum + hand[3]) % 10,
              IF banker_sum <= 6 /\ hand[3] \in BANKER_DRAW_MAP(banker_sum)
                THEN (banker_sum + hand[6]) % 10 ELSE banker_sum>>
     ELSE <<player_sum, banker_sum>>
DrawingRules(hand) ==
  LET player_sum == (hand[1] + hand[2]) % 10
      banker_sum == (hand[4] + hand[5]) % 10
  IN IF player_sum \in {6, 7}
       THEN <<player_sum,
              IF banker_sum <= 5 THEN (banker_sum + hand[6]) % 10 ELSE banker_sum>>
     ELSE IF player_sum <= 5 /\ banker_sum < 8
       THEN <<(player_sum + hand[3]) % 10,
              IF banker_sum <= 6 /\ hand[3] \in BANKER_DRAW_MAP(banker_sum)
                THEN (banker_sum + hand[6]) % 10 ELSE banker_sum>>
     ELSE <<player_sum, banker_sum>>

OutcomeNames == {"player", "banker", "tie"}

\* The defaultdict(int) banker_breakdown: a function on the keys present.
EmptyDict == [k \in {} |-> Zero]
DictGet(d, k) == IF k \in DOMAIN d THEN d[k] ELSE Zero
\* d[k] += w
DictAdd(d, k, w) ==
  IF k \in DOMAIN d THEN [d EXCEPT ![k] = BigAdd(@, w)] ELSE d @@ (k :> w)
\* d[k] read for every k of keys: a missing key is inserted with int() = 0
DictTouch(d, keys) ==
  [x \in (DOMAIN d) \cup keys |-> DictGet(d, x)]
\* run_calculations, the end of the body of the loop: a hand of weight 0 is
\* skipped, any other adds its weight to the tally of its outcome, and a
\* banker win also to banker_breakdown[(banker_sum, player_sum)].  t is the
\* tallies [counts, banker_breakdown], sums is <<player_sum, banker_sum>>.
Tally_noBreakdown(t, ways, sums) ==
  IF ways = Zero THEN t
  ELSE IF sums[1] > sums[2]
    THEN [t EXCEPT !.counts.player = BigAdd(@, ways)]
  ELSE IF sums[2] > sums[1]
    THEN [t EXCEPT !.counts.banker = BigAdd(@, ways)]
  ELSE [t EXCEPT !.counts.tie = BigAdd(@, ways)]
Tally_noTie(t, ways, sums) ==
  IF ways = Zero THEN t
  ELSE IF sums[1] > sums[2]
    THEN [t EXCEPT !.counts.player = BigAdd(@, ways)]
  ELSE IF sums[2] > sums[1]
    THEN [counts |-> [t.counts EXCEPT !.banker = BigAdd(@, ways)],
          banker_breakdown |->
            DictAdd(t.banker_breakdown, <<sums[2], sums[1]>>, ways)]
  ELSE t
Tally(t, ways, sums) ==
  IF ways = Zero THEN t
  ELSE IF sums[1] > sums[2]
    THEN [t EXCEPT !.counts.player = BigAdd(@, ways)]
  ELSE IF sums[2] > sums[1]
    THEN [counts |-> [t.counts EXCEPT !.banker = BigAdd(@, ways)],
          banker_breakdown |->
            DictAdd(t.banker_breakdown, <<sums[2], sums[1]>>, ways)]
  ELSE [t EXCEPT !.counts.tie = BigAdd(@, ways)]

\* run_calculations, the body of the loop for one hand: the tallies after it.
LoopBody(t, deck_frequency, hand) ==
  Tally(t, CountPermutationsOfHand(deck_frequency, hand), DrawingRules(hand))

\* itertools.product(deck, repeat=6): the first tuple, and the tuple after h
\* in the order product yields them (rightmost position fastest), <<>> once
\* exhausted.  deck is range(size): the card values 0..size-1.
FirstHand(size) == [j \in 1..HandLen |-> 0]
RECURSIVE Advance(_, _, _)
Advance(size, h, j) ==
  IF j = 0 THEN <<>>
  ELSE IF h[j] < size - 1
    THEN [x \in 1..HandLen |-> IF x < j THEN h[x] ELSE IF x = j THEN h[j] + 1 ELSE 0]
  ELSE Advance(size, h, j - 1)
NextHand(size, h) == Advance(size, h, HandLen)

\* ------------------------------------------------------------------- state
VARIABLES
  num_decks,        \* Shoe.num_decks
  deck,             \* BaccaratCalculator.deck, a tuple of card values
  deck_frequency,   \* BaccaratCalculator.deck_frequency
  counts,           \* BaccaratCalculator.counts
  banker_breakdown, \* BaccaratCalculator.banker_breakdown
  total,            \* BaccaratCalculator.total
  pc,               \* "idle": no method is running; "running": inside the
                    \* loop of run_calculations
  hand,             \* the hand the loop of run_calculations is at, <<>> once
                    \* itertools.product is exhausted or outside the loop
  runs,             \* completed invocations of run_calculations
  raised,           \* the exception the last print_results ended with
  first,            \* history: the results as the first invocation left them
  probe             \* the pure functions applied to one hand (SpecHand);
                    \* unused by the calculator

vars == <<num_decks, deck, deck_frequency, counts, banker_breakdown, total,
          pc, hand, runs, raised, first, probe>>

Range(size) == [i \in 1..size |-> i - 1]
NoResults == [counts |-> [player |-> Zero, banker |-> Zero, tie |-> Zero],
              banker_breakdown |-> EmptyDict, total |-> Zero]
NoProbe == [done |-> FALSE]

\* Shoe(num_decks=n) and BaccaratCalculator(shoe).__init__, over the value
\* classes range(size).
Construct(n, size) ==
  /\ num_decks = n
  /\ deck = Range(size)
  /\ deck_frequency = Frequencies(n)
  /\ counts = [player |-> Zero, banker |-> Zero, tie |-> Zero]
  /\ banker_breakdown = EmptyDict
  /\ total = Zero
  /\ pc = "idle"
  /\ hand = <<>>
  /\ runs = 0
  /\ raised = "none"
  /\ first = NoResults
  /\ probe = NoProbe

Init == \E n \in MinDecks..MaxDecks : Construct(n, NumValues)

\* run_calculations up to the first iteration: the aliases are taken and
\* itertools.product yields its first tuple.
RunStart ==
  /\ pc = "idle"
  /\ runs < MaxRuns
  /\ pc' = "running"
  /\ hand' = FirstHand(Len(deck))
  /\ UNCHANGED <<num_decks, deck, deck_frequency, counts, banker_breakdown,
                 total, runs, raised, first, probe>>

\* One iteration of the loop of run_calculations.
ProcessHand ==
  /\ pc = "running"
  /\ hand # <<>>
  /\ LET t == LoopBody([counts |-> counts, banker_breakdown |-> banker_breakdown],
                       deck_frequency, hand)
     IN /\ counts' = t.counts
        /\ banker_breakdown' = t.banker_breakdown
  /\ hand' = NextHand(Len(deck), hand)
  /\ UNCHANGED <<num_decks, deck, deck_frequency, total, pc, runs, raised,
                 first, probe>>

\* The loop has ended: self.total = counts['player'] + counts['banker'] +
\* counts['tie'], and run_calculations returns.
RunFinish ==
  /\ pc = "running"
  /\ hand = <<>>
  /\ total' = BigAdd(BigAdd(counts.player, counts.banker), counts.tie)
  /\ pc' = "idle"
  /\ runs' = runs + 1
  /\ first' = IF runs = 0
                THEN [counts |-> counts, banker_breakdown |-> banker_breakdown,
                      total |-> total']
                ELSE first
  /\ UNCHANGED <<num_decks, deck, deck_frequency, counts, banker_breakdown,
                 hand, raised, probe>>

\* print_results: every banker_breakdown[(b_sum, p_sum)] with
\* p_sum < b_sum <= 9 is read, which inserts the missing keys; the divisions
\* by total raise ZeroDivisionError when total is 0 (the divisions inside the
\* first loop are guarded by a positive row sum, which implies total > 0
\* whenever no method is running).
PrintKeys == {<<b_sum, p_sum>> : b_sum \in 1..9, p_sum \in 0..8} \cap
             {k \in Values \X Values : k[2] < k[1]}
PrintResults ==
  /\ pc = "idle"
  /\ banker_breakdown' = DictTouch(banker_breakdown, PrintKeys)
  /\ raised' = IF total = Zero THEN "ZeroDivisionError" ELSE "none"
  /\ UNCHANGED <<num_decks, deck, deck_frequency, counts, total, pc, hand,
                 runs, first, probe>>

Next == RunStart \/ ProcessHand \/ RunFinish \/ PrintResults

Spec == Init /\ [][Next]_vars

\* ---------------------------------------------------- baccarat_six_decks.py
\* add(cardOne, cardTwo)
add(cardOne, cardTwo) == (cardOne + cardTwo) % 10

\* final_sums(hand): (playerSum, bankerSum) after the draws.
final_sums(h) ==
  LET playerSum == add(h[1], h[2])
      bankerSum == add(h[4], h[5])
  IN IF playerSum = 6 \/ playerSum = 7
       THEN <<playerSum, IF bankerSum <= 5 THEN add(bankerSum, h[6]) ELSE bankerSum>>
     ELSE IF playerSum <= 5 /\ bankerSum < 8
       THEN <<add(playerSum, h[3]),
              IF bankerSum <= 2 THEN add(bankerSum, h[6])
              ELSE IF bankerSum = 3 /\ h[3] \in {0, 1, 2, 3, 4, 5, 6, 7, 9}
                THEN add(bankerSum, h[6])
              ELSE IF bankerSum = 4 /\ h[3] \in {2, 3, 4, 5, 6, 7}
                THEN add(bankerSum, h[6])
              ELSE IF bankerSum = 5 /\ h[3] \in {4, 5, 6, 7}
                THEN add(bankerSum, h[6])
              ELSE IF bankerSum = 6 /\ h[3] \in {6, 7}
                THEN add(bankerSum, h[6])
              ELSE bankerSum>>
     ELSE <<playerSum, bankerSum>>

\* outcome(hand): the same rules, written out a second time in the source,
\* then the comparison of the two sums.
outcome(h) ==
  LET playerSum == add(h[1], h[2])
      bankerSum == add(h[4], h[5])
      sums ==
        IF playerSum = 6 \/ playerSum = 7
          THEN <<playerSum, IF bankerSum <= 5 THEN add(bankerSum, h[6]) ELSE bankerSum>>
        ELSE IF playerSum <= 5 /\ bankerSum < 8
          THEN <<add(playerSum, h[3]),
                 IF bankerSum <= 2 THEN add(bankerSum, h[6])
                 ELSE IF bankerSum = 3 /\ h[3] \in {0, 1, 2, 3, 4, 5, 6, 7, 9}
                   THEN add(bankerSum, h[6])
                 ELSE IF bankerSum = 4 /\ h[3] \in {2, 3, 4, 5, 6, 7}
                   THEN add(bankerSum, h[6])
                 ELSE IF bankerSum = 5 /\ h[3] \in {4, 5, 6, 7}
                   THEN add(bankerSum, h[6])
                 ELSE IF bankerSum = 6 /\ h[3] \in {6, 7}
                   THEN add(bankerSum, h[6])
                 ELSE bankerSum>>
        ELSE <<playerSum, bankerSum>>
  IN IF sums[1] > sums[2] THEN "player"
     ELSE IF sums[2] > sums[1] THEN "banker"
     ELSE "tie"

\* repCount(hand): count = 1; for c in hand: count *= copyFreq[c];
\* copyFreq[c] -= 1, on a copy of deckFrequency.
RECURSIVE RepLoop_noDeplete(_, _, _, _)
RepLoop_noDeplete(copyFreq, h, j, count) ==
  IF j > Len(h) THEN count
  ELSE RepLoop_noDeplete(copyFreq, h, j + 1, BigMul(count, copyFreq[h[j]]))
RECURSIVE RepLoop(_, _, _, _)
RepLoop(copyFreq, h, j, count) ==
  IF j > Len(h) THEN count
  ELSE RepLoop([copyFreq EXCEPT ![h[j]] = @ - 1], h, j + 1,
               BigMul(count, copyFreq[h[j]]))
repCount(deckFrequency, h) == RepLoop(deckFrequency, h, 1, One)

\* ------------------------------------------- the functions on a single hand
\* Every hand pattern over range(size).
HandsOver(size) == [1..HandLen -> 0..(size - 1)]
\* A frequency vector with arbitrary supplies 0..MaxFreq of the value classes
\* below WeightValues and none of the others.
SmallVectors ==
  {[i \in Values |-> IF i < WeightValues THEN f[i] ELSE 0] :
     f \in [0..(WeightValues - 1) -> 0..MaxFreq]}

InitHand ==
  /\ \/ /\ hand \in HandsOver(WeightValues)
        /\ num_decks = 0
        /\ deck_frequency \in SmallVectors
     \/ /\ hand \in HandsOver(FullDeckSize)
        /\ num_decks = SixDecks
        /\ deck_frequency = Frequencies(SixDecks)
  /\ deck = Range(FullDeckSize)
  /\ counts = [player |-> Zero, banker |-> Zero, tie |-> Zero]
  /\ banker_breakdown = EmptyDict
  /\ total = Zero
  /\ pc = "idle"
  /\ runs = 0
  /\ raised = "none"
  /\ first = NoResults
  /\ probe = NoProbe

\* Both programs applied to the hand: the weight and the final sums of
\* baccarat.py; repCount, final_sums and outcome of baccarat_six_decks.py.
Evaluate ==
  /\ ~probe.done
  /\ probe' =
       [done |-> TRUE,
        ways |-> CountPermutationsOfHand(deck_frequency, hand),
        sums |-> DrawingRules(hand),
        repCount |-> repCount(deck_frequency, hand),
        final_sums |-> final_sums(hand),
        outcome |-> outcome(hand)]
  /\ UNCHANGED <<num_decks, deck, deck_frequency, counts, banker_breakdown,
                 total, pc, hand, runs, raised, first>>

SpecHand == InitHand /\ [][Evaluate]_vars

\* The loop of run_calculations over the hands that continue the cards of
\* prefix, in the order itertools.product yields them over range(10): the
\* tallies after each of the ten next cards in turn, and so after the last.
\* evaluated[h] is <<ways, <<player_sum, banker_sum>>>> of the hand h.
RECURSIVE LoopOver(_, _, _)
LoopOver(t, prefix, evaluated) ==
  IF Len(prefix) = HandLen
    THEN LET e == evaluated[prefix] IN Tally(t, e[1], e[2])
  ELSE LET t0 == LoopOver(t, Append(prefix, 0), evaluated)
           t1 == LoopOver(t0, Append(prefix, 1), evaluated)
           t2 == LoopOver(t1, Append(prefix, 2), evaluated)
           t3 == LoopOver(t2, Append(prefix, 3), evaluated)
           t4 == LoopOver(t3, Append(prefix, 4), evaluated)
           t5 == LoopOver(t4, Append(prefix, 5), evaluated)
           t6 == LoopOver(t5, Append(prefix, 6), evaluated)
           t7 == LoopOver(t6, Append(prefix, 7), evaluated)
           t8 == LoopOver(t7, Append(prefix, 8), evaluated)
           t9 == LoopOver(t8, Append(prefix, 9), evaluated)
       IN <<t0, t1, t2, t3, t4, t5, t6, t7, t8, t9>>[FullDeckSize]

\* The iterations of the loop of run_calculations for the thousand hands
\* that share the player's cards hand[1], hand[2], hand[3], taken as one step.
ProcessBlock_firstOnly ==
  /\ pc = "running"
  /\ hand # <<>>
  /\ LET evaluated == [h \in [1..HandLen -> Values] |->
                        <<CountPermutationsOfHand(deck_frequency, h),
                          DrawingRules(h)>>]
         t == LoopOver([counts |-> counts, banker_breakdown |-> banker_breakdown],
                       <<hand[1], hand[2], hand[3]>>, evaluated)
     IN /\ counts' = t.counts
        /\ banker_breakdown' = t.banker_breakdown
  /\ hand' = <<>>
  /\ UNCHANGED <<num_decks, deck, deck_frequency, total, pc, runs, raised,
                 first, probe>>
ProcessBlock ==
  /\ pc = "running"
  /\ hand # <<>>
  /\ LET evaluated == [h \in [1..HandLen -> Values] |->
                        <<CountPermutationsOfHand(deck_frequency, h),
                          DrawingRules(h)>>]
         t == LoopOver([counts |-> counts, banker_breakdown |-> banker_breakdown],
                       <<hand[1], hand[2], hand[3]>>, evaluated)
     IN /\ counts' = t.counts
        /\ banker_breakdown' = t.banker_breakdown
  /\ hand' = Advance(Len(deck), hand, 3)
  /\ UNCHANGED <<num_decks, deck, deck_frequency, total, pc, runs, raised,
                 first, probe>>

\* main(): run_calculations is invoked once on the calculator as constructed,
\* and print_results after it.
RunOnce == runs = 0 /\ RunStart
PrintAfterRun == runs = 1 /\ PrintResults

\* The program over its own deck range(10), for a shoe of one deck.
InitFull == Construct(1, FullDeckSize)
NextFull == RunOnce \/ ProcessBlock \/ RunFinish \/ PrintAfterRun
SpecFull == InitFull /\ [][NextFull]_vars

\* ================================================================== claims

\* The tallies read as a mapping with default 0, as the code reads them.
BreakdownKeys == Values \X Values
SumCounts(c) == BigAdd(BigAdd(c.player, c.banker), c.tie)
\* The sum of the entries of a breakdown: row by row (a row is one banker
\* total), each row over the player totals.
RECURSIVE SumRow(_, _, _)
SumRow(d, b_sum, p_sum) ==
  IF p_sum < 0 THEN Zero
  ELSE BigAdd(SumRow(d, b_sum, p_sum - 1), DictGet(d, <<b_sum, p_sum>>))
RECURSIVE SumRows(_, _)
SumRows(d, b_sum) ==
  IF b_sum < 0 THEN Zero
  ELSE BigAdd(SumRows(d, b_sum - 1), SumRow(d, b_sum, FullDeckSize - 1))
DictSum(d) == SumRows(d, FullDeckSize - 1)

\* The tally the comparison of the final sums picks.
OutcomeOf(sums) ==
  IF sums[1] > sums[2] THEN "player" ELSE IF sums[2] > sums[1] THEN "banker" ELSE "tie"
\* The sum of the weights of the hand patterns over range(size) whose outcome
\* is in the set outcomes, every pattern taken once, by position and not in
\* the order of the loop.
RECURSIVE SumWays(_, _, _, _), SumValues(_, _, _, _, _)
SumWays(deck_freq, size, outcomes, prefix) ==
  IF Len(prefix) = HandLen
    THEN IF OutcomeOf(DrawingRules(prefix)) \in outcomes
           THEN CountPermutationsOfHand(deck_freq, prefix)
           ELSE Zero
  ELSE SumValues(deck_freq, size, outcomes, prefix, size - 1)
SumValues(deck_freq, size, outcomes, prefix, v) ==
  IF v < 0 THEN Zero
  ELSE BigAdd(SumValues(deck_freq, size, outcomes, prefix, v - 1),
              SumWays(deck_freq, size, outcomes, Append(prefix, v)))

\* C1 (exhaustiveness): whenever run_calculations has returned, the three
\* outcome tallies add up to total; and after the pass of a constructed
\* calculator, total is the sum of the weights of all hand patterns, each
\* taken once, and each outcome tally is the sum of the weights of the
\* patterns of that outcome.
C1_Exhaustive ==
  /\ (pc = "idle" /\ runs >= 1) => total = SumCounts(counts)
  /\ (pc = "idle" /\ runs = 1) =>
       /\ total = SumWays(deck_frequency, Len(deck), OutcomeNames, <<>>)
       /\ \A o \in OutcomeNames :
            counts[o] = SumWays(deck_frequency, Len(deck), {o}, <<>>)
C1_Witness ==
  /\ pc = "idle" /\ runs = 1 /\ num_decks = 1
  /\ counts.player # Zero /\ counts.banker # Zero /\ counts.tie # Zero

\* C2 (breakdown consistency): after every processed hand pattern, and so at
\* the end of the pass, the entries of banker_breakdown add up to
\* counts['banker'].
C2_BreakdownSum ==
  /\ DOMAIN banker_breakdown \subseteq BreakdownKeys
  /\ DictSum(banker_breakdown) = counts.banker
C2_Witness ==
  /\ pc = "running" /\ hand # <<>>
  /\ Cardinality(DOMAIN banker_breakdown) >= 2
  /\ counts.banker # Zero

\* C3 (construction-time validation), as claimed: with a deck count of zero
\* or less the enumeration loop is never entered.
C3_NonPositiveRejected == num_decks <= 0 => (pc = "idle" /\ runs = 0)

\* C4 (idempotence), as claimed: after any number of invocations counts,
\* banker_breakdown and total are what the first invocation left.
C4_Idempotent ==
  (pc = "idle" /\ runs >= 1) =>
    /\ counts = first.counts
    /\ total = first.total
    /\ \A k \in BreakdownKeys :
         DictGet(banker_breakdown, k) = DictGet(first.banker_breakdown, k)

\* C9 (tally lifecycle), as claimed: every tally is zero when a pass starts,
\* no step decreases a tally, a step of the loop changes at most one outcome
\* tally, and once a pass has completed no operation changes counts, total
\* or an entry of banker_breakdown.
C9_Step ==
  /\ (pc = "idle" /\ pc' = "running") =>
       /\ \A o \in OutcomeNames : counts'[o] = Zero
       /\ \A k \in BreakdownKeys : DictGet(banker_breakdown', k) = Zero
  /\ \A o \in OutcomeNames : BigLeq(counts[o], counts'[o])
  /\ \A k \in BreakdownKeys :
       BigLeq(DictGet(banker_breakdown, k), DictGet(banker_breakdown', k))
  /\ Cardinality({o \in OutcomeNames : counts'[o] # counts[o]}) <= 1
  /\ runs >= 1 =>
       /\ counts' = counts
       /\ total' = total
       /\ \A k \in BreakdownKeys :
            DictGet(banker_breakdown', k) = DictGet(banker_breakdown, k)
\* C9: every step of the program is a step of the tally lifecycle.
C9_Lifecycle == [][C9_Step]_vars

\* The number of positions of the hand holding value class i.
Occurrences(h, i) == Cardinality({j \in 1..HandLen : h[j] = i})
\* a n (n-1) ... (n-k+1), and a when k = 0.
RECURSIVE TimesFalling(_, _, _)
TimesFalling(a, n, k) == IF k = 0 THEN a ELSE TimesFalling(BigMul(a, n - k + 1), n, k - 1)
RECURSIVE ProductFrom(_, _, _)
ProductFrom(n, h, i) ==
  IF i < 0 THEN One
  ELSE TimesFalling(ProductFrom(n, h, i - 1), n[i], Occurrences(h, i))

\* C5 (weighting): the weight of a hand is 0 when some value class occurs
\* more often among the six positions than the shoe holds it, and otherwise
\* the product over the value classes of the falling factorials; it is never
\* negative.
C5_Weighting ==
  probe.done =>
    /\ probe.ways =
         IF \E i \in Values : Occurrences(hand, i) > deck_frequency[i]
           THEN Zero
           ELSE ProductFrom(deck_frequency, hand, FullDeckSize - 1)
    /\ probe.ways[1] >= 0 /\ probe.ways[2] >= 0
C5_Witness ==
  /\ probe.done
  /\ Occurrences(hand, 1) = MaxFreq /\ deck_frequency[1] = MaxFreq
  /\ probe.ways # Zero

\* C6 (naturals end the hand): when either two-card total is 8 or 9, both
\* final totals are the two-card totals, whatever c3 and c6 are.
Natural(h) == (h[1] + h[2]) % 10 \in {8, 9} \/ (h[4] + h[5]) % 10 \in {8, 9}
C6_Naturals ==
  (probe.done /\ Natural(hand)) =>
    /\ probe.sums = <<(hand[1] + hand[2]) % 10, (hand[4] + hand[5]) % 10>>
    /\ probe.final_sums = <<(hand[1] + hand[2]) % 10, (hand[4] + hand[5]) % 10>>
C6_Witness ==
  /\ probe.done
  /\ (hand[1] + hand[2]) % 10 = 3 /\ (hand[4] + hand[5]) % 10 = 8
  /\ hand[3] = 5 /\ hand[6] = 7
  /\ probe.sums = <<3, 8>>

\* C7 (banker third-card table): with p and b the two-card totals, the
\* banker's final total is (b + c6) mod 10 when p is 6 or 7 and b <= 5, or
\* when p <= 5, b < 8 and c3 is in the draw set of b; otherwise it is b.
BankerDraws(p, b, c3) ==
  \/ p \in {6, 7} /\ b <= 5
  \/ /\ p <= 5
     /\ b < 8
     /\ \/ b \in {0, 1, 2}
        \/ b = 3 /\ c3 # 8
        \/ b = 4 /\ c3 \in 2..7
        \/ b = 5 /\ c3 \in 4..7
        \/ b = 6 /\ c3 \in {6, 7}
C7_BankerTable ==
  probe.done =>
    LET p == (hand[1] + hand[2]) % 10
        b == (hand[4] + hand[5]) % 10
    IN probe.sums[2] = IF BankerDraws(p, b, hand[3]) THEN (b + hand[6]) % 10 ELSE b
C7_Witness ==
  /\ probe.done
  /\ (hand[1] + hand[2]) % 10 = 2 /\ (hand[4] + hand[5]) % 10 = 7
  /\ hand[3] = 6 /\ hand[6] = 1
  /\ probe.sums = <<8, 7>>

\* C10 (the two programs agree): on every hand, repCount equals the weight of
\* baccarat.py, final_sums equals its final sums, and outcome names the
\* tally its comparison picks; on the shoe of six decks and on every
\* non-negative frequency vector.
C10_Equivalent ==
  probe.done =>
    /\ probe.repCount = probe.ways
    /\ probe.final_sums = probe.sums
    /\ probe.outcome = OutcomeOf(probe.sums)
C10_Witness ==
  /\ probe.done
  /\ num_decks = SixDecks
  /\ hand = <<0, 3, 7, 2, 8, 9>>
  /\ probe.repCount # Zero
  /\ probe.outcome = "banker"

\* C8 (single-deck total): for Shoe(num_decks=1), after run_calculations the
\* grand total is 52*51*50*49*48*47 = 14,658,134,400.
C8_SingleDeckTotal ==
  (pc = "idle" /\ runs = 1 /\ num_decks = 1) =>
    total = BigMul(BigMul(BigMul(Big(52 * 51 * 50), 49), 48), 47)
C8_Witness ==
  /\ pc = "idle" /\ runs = 1 /\ num_decks = 1 /\ Len(deck) = FullDeckSize
  /\ total = <<14658, 134400>>

====
